---- MODULE Spec2Model ----
(***************************************************************************)
(* PathEditor (Framework/Source/Graphics/Paths/PathEditor.cpp): the panel   *)
(* that edits the keyframes of an ObjectPath through immediate-mode         *)
(* widgets.  One render call is the sequence of widget handlers of          *)
(* PathEditor::render; pc is the handler that runs next.                    *)
(***************************************************************************)
EXTENDS Integers, Sequences, FiniteSets, TLC

VARIABLES
    mKeyFrames,         \* ObjectPath: the keyframes, [time, position, target, up]
    mName,              \* ObjectPath: the path's name
    mRepeat,            \* ObjectPath: the loop flag
    mActiveFrame,       \* PathEditor::mActiveFrame (int32_t)
    mFrameTime,         \* PathEditor::mFrameTime
    mPreserveRotation,  \* PathEditor::mPreserveRotation
    mActiveFrameRot,    \* PathEditor::mActiveFrameRot
    mEditCompleteCB,    \* whether the edit-complete std::function holds a target
    window,             \* whether the Gui window pushed by render is still open
    pc,                 \* the handler of render that runs next ("idle": outside render)
    ev,                 \* what the last handler did (observation, not program state)
    fired               \* the handlers whose widget reported a change in this render call

vars == <<mKeyFrames, mName, mRepeat, mActiveFrame, mFrameTime, mPreserveRotation,
          mActiveFrameRot, mEditCompleteCB, window, pc, ev, fired>>

---------------------------------------------------------------------------
(* Bounds of the model *)

\* The most keyframes the path is let to hold (Add Frame is not pressed beyond it).
MaxFrames == 3
\* Frame times typed into "Frame Time" are 0..MaxTime.
MaxTime == 2
\* The keyframes of the path in the pose-editing scenario.
MaxPoseFrames == 1

---------------------------------------------------------------------------
(* float arithmetic on glm::vec3 *)

\* Bits of a float's significand: integers up to 2^24 are exact.
FloatMantBits == 24

Abs(x) == IF x < 0 THEN -x ELSE x

\* The spacing of floats around magnitude a (a and s integers, s a power of two).
RECURSIVE FloatStep(_, _)
FloatStep(a, s) == IF a <= (2 ^ FloatMantBits) * s THEN s ELSE FloatStep(a, 2 * s)

\* An exact integer result rounded to float: to nearest, ties to the even significand.
RoundF(x) ==
    LET a == Abs(x)
        s == FloatStep(a, 1)
        q == a \div s
        r == a % s
        n == IF 2 * r < s THEN q
             ELSE IF 2 * r > s THEN q + 1
             ELSE IF q % 2 = 0 THEN q ELSE q + 1
    IN  IF x < 0 THEN -(n * s) ELSE n * s

\* glm::vec3 operator+ (component-wise float addition).
VecAdd(a, b) == <<RoundF(a[1] + b[1]), RoundF(a[2] + b[2]), RoundF(a[3] + b[3])>>

\* glm::vec3 operator- (component-wise float subtraction).
VecSub(a, b) == <<RoundF(a[1] - b[1]), RoundF(a[2] - b[2]), RoundF(a[3] - b[3])>>

---------------------------------------------------------------------------
(* ObjectPath: the keyframe container the panel edits *)

Zero3 == <<0, 0, 0>>

\* The pose addFrame gives the first keyframe of an empty path.
DefaultPose == [position |-> Zero3, target |-> <<0, 0, 1>>, up |-> <<0, 1, 0>>]

Frame(t, pose) ==
    [time |-> t, position |-> pose.position, target |-> pose.target, up |-> pose.up]

PoseOf(f) == [position |-> f.position, target |-> f.target, up |-> f.up]

\* ObjectPath::getKeyFrameCount
getKeyFrameCount(kfs) == Len(kfs)

\* Whether id (0-based) designates a keyframe of kfs.
ValidIndex(kfs, id) == id >= 0 /\ id < Len(kfs)

\* ObjectPath::getKeyFrame.  Out of range the read is undefined; the handlers
\* record such a read in ev.oob, and the value stands for whatever was read.
getKeyFrame(kfs, id) == IF ValidIndex(kfs, id) THEN kfs[id + 1] ELSE Frame(0, DefaultPose)

\* ObjectPath::removeKeyFrame: erases the keyframe at id.
removeKeyFrame(kfs, id) ==
    IF ValidIndex(kfs, id)
    THEN SubSeq(kfs, 1, id) \o SubSeq(kfs, id + 2, Len(kfs))
    ELSE kfs

\* kfs with frame f put at 0-based index j.
InsertAt(kfs, j, f) == SubSeq(kfs, 1, j) \o <<f>> \o SubSeq(kfs, j + 1, Len(kfs))

\* ObjectPath::addKeyFrame / setFrameTime: the indices the path may give a keyframe
\* of time t, keeping the keyframes ordered by time.
TimeOrderedIndices(kfs, t) ==
    { j \in 0..Len(kfs) :
        /\ \A k \in 1..j : kfs[k].time <= t
        /\ \A k \in (j + 1)..Len(kfs) : kfs[k].time >= t }

\* ObjectPath::setFramePosition / setFrameTarget / setFrameUp
setFramePosition(kfs, id, v) ==
    IF ValidIndex(kfs, id) THEN [kfs EXCEPT ![id + 1].position = v] ELSE kfs

setFrameTarget(kfs, id, v) ==
    IF ValidIndex(kfs, id) THEN [kfs EXCEPT ![id + 1].target = v] ELSE kfs

setFrameUp(kfs, id, v) ==
    IF ValidIndex(kfs, id) THEN [kfs EXCEPT ![id + 1].up = v] ELSE kfs

---------------------------------------------------------------------------
(* The look-at-to-Euler derivation and the yaw-pitch-roll matrix *)

\* createMatrixFromLookAt + extractEulerAngleXYZ + degrees: a fixed function of the
\* keyframe's position, target and up, kept as the term it is applied to.
EulerOf(f) == <<"lookAt", f.position, f.target, f.up>>

\* Angles typed into the "Rotation" field.
Typed(r) == <<"typed", r, Zero3, Zero3>>

\* glm::yawPitchRoll(radians(r)): the matrix's second column (up) and third column
\* (forward) for the angles the model types in.
YawPitchRoll(r) ==
    IF r = <<90, 0, 0>>
    THEN [up |-> <<0, 1, 0>>, fwd |-> <<1, 0, 0>>]
    ELSE [up |-> <<0, 1, 0>>, fwd |-> <<0, 0, 1>>]

---------------------------------------------------------------------------
(* Observations *)

\* One callback invocation, with what the host sees of the panel at that moment.
CB(name, kfs, active) == [cb |-> name, count |-> Len(kfs), active |-> active]

NoChange == [chk |-> FALSE, pos |-> FALSE, tgt |-> FALSE, up |-> FALSE, rot |-> FALSE]

\* The panel and path as a handler finds them.
Pre ==
    [kfs |-> mKeyFrames, active |-> mActiveFrame, frameTime |-> mFrameTime,
     rot |-> mActiveFrameRot, preserve |-> mPreserveRotation,
     name |-> mName, repeat |-> mRepeat]

\* op: the handler; pressed: its widget reported a change; drawn: its
\* frame-dependent control was drawn; oob: it accessed a keyframe out of range;
\* cbs: the callbacks it invoked, in order; chg: the fields of the property editor
\* that reported a change; pre: the state it started from.
Ev(op, pressed, drawn, oob, cbs, chg) ==
    [op |-> op, fired |-> pressed, drawn |-> drawn, oob |-> oob, cbs |-> cbs,
     chg |-> chg, pre |-> Pre]

---------------------------------------------------------------------------
(* What the host and the user feed the panel *)

\* A field of the property editor the user leaves alone this frame.
NoVec == <<>>

\* The largest single-precision integer above which odd integers are not floats.
BigF == 2 ^ FloatMantBits

\* The camera "Move Frame to Camera" reads.
CameraPose == [position |-> <<1, 0, 0>>, target |-> Zero3, up |-> <<0, 0, 1>>]

\* The handlers with a button or selector.
Buttons ==
    {"closeEditor", "editActiveFrameID", "addFrame", "deleteFrame",
     "updateFrameTime", "moveToCamera"}

\* The scenario in which keyframes are added, removed, selected and retimed: poses
\* change only through the camera.
FramesU ==
    [initPaths |-> {<<>>, <<Frame(0, DefaultPose)>>},
     maxFrames |-> MaxFrames,
     press     |-> Buttons,
     times     |-> 0..MaxTime,
     toggles   |-> {FALSE},
     pos       |-> {NoVec},
     tgt       |-> {NoVec},
     up        |-> {NoVec},
     rots      |-> {NoVec},
     names     |-> {"path"},
     loops     |-> {FALSE},
     editCompleteCBs |-> BOOLEAN,
     maxCoord  |-> 1]

\* The scenario in which the pose of the active keyframe of a path of MaxPoseFrames
\* keyframes is edited field by field and the path's name and loop flag are edited;
\* of the buttons only Close is pressed.
PoseU ==
    [initPaths |-> {[k \in 1..MaxPoseFrames |-> Frame(k - 1, DefaultPose)]},
     maxFrames |-> MaxPoseFrames,
     press     |-> {"closeEditor"},
     times     |-> {0},
     toggles   |-> BOOLEAN,
     pos       |-> {NoVec, Zero3, <<0, 0, BigF>>},
     tgt       |-> {NoVec, <<0, 0, 1>>},
     up        |-> {NoVec, <<1, 0, 0>>},
     rots      |-> {NoVec, Zero3, <<90, 0, 0>>},
     names     |-> {"path", "orbit"},
     loops     |-> BOOLEAN,
     editCompleteCBs |-> {TRUE},
     maxCoord  |-> 2 * BigF]

\* Whether the user may activate handler h's button this frame in scenario U.
Presses(U, h) == IF h \in U.press THEN BOOLEAN ELSE {FALSE}

\* Every coordinate of the keyframes stays within the scenario's range.
InRange(U, kfs) ==
    \A k \in 1..Len(kfs) : \A c \in 1..3 :
        /\ Abs(kfs[k].position[c]) <= U.maxCoord
        /\ Abs(kfs[k].target[c]) <= U.maxCoord
        /\ Abs(kfs[k].up[c]) <= U.maxCoord

---------------------------------------------------------------------------
(* PathEditor *)

\* Unsigned comparison x < y of two 32-bit patterns held as int32 values
\* (a negative value is a pattern with the top bit set).
U32Less(x, y) ==
    IF (x >= 0) = (y >= 0) THEN x < y ELSE x >= 0

\* The mutant of ClampActive: the index is left as it was.
ClampActive_unclamped(count, active) == active

\* The mutant of ClampActive: the index always becomes the last one.
ClampActive_last(count, active) == count - 1

\* deleteFrame: min(mpPath->getKeyFrameCount() - 1, (uint32_t)mActiveFrame), in
\* uint32_t: with count = 0 the first operand wraps to the pattern of -1.
ClampActive(count, active) ==
    LET last == count - 1
    IN  IF U32Less(last, active) THEN last ELSE active

\* The mutant of FramesRemain: setActiveFrame is called whatever is left.
FramesRemain_unchecked(kfs) == TRUE

\* deleteFrame: the check that keyframes remain before setActiveFrame.
FramesRemain(kfs) == getKeyFrameCount(kfs) > 0

\* The mutant of NewFramePose: the new keyframe always gets the default pose.
NewFramePose_default(kfs, active) == DefaultPose

\* addFrame: the pose of the new keyframe.
NewFramePose(kfs, active) ==
    IF getKeyFrameCount(kfs) > 0 THEN PoseOf(getKeyFrame(kfs, active)) ELSE DefaultPose

\* The mutant of PreservedTarget: the old offset is not added.
PreservedTarget_unshifted(p, keyframe) == keyframe.target

\* editKeyframeProperties: the target written when Preserve Rotation is checked.
PreservedTarget(p, keyframe) ==
    LET toTarget == VecSub(keyframe.target, keyframe.position)
    IN  VecAdd(p, toTarget)

\* The mutant of Dirty: an edit of the Rotation field does not count.
Dirty_withoutRotation(posCh, tgtCh, upCh, rotCh) == posCh \/ tgtCh \/ upCh

\* editKeyframeProperties: the dirty flag at the end of the editor.
Dirty(posCh, tgtCh, upCh, rotCh) == posCh \/ tgtCh \/ upCh \/ rotCh

\* closeEditor: if (mEditCompleteCB) mEditCompleteCB();
EditCompleteCalls(kfs, active, set) ==
    IF set THEN <<CB("editComplete", kfs, active)>> ELSE <<>>

\* The mutant of AfterClose: render goes on after closeEditor returned true.
AfterClose_noReturn(pressed) == "editPathName"

\* render: if (closeEditor(pGui)) return;
AfterClose(pressed) == IF pressed THEN "idle" ELSE "editPathName"

\* The mutant of RetimedIndex: the index setFrameTime returns is dropped.
RetimedIndex_kept(returned, active) == active

\* updateFrameTime: mActiveFrame = mpPath->setFrameTime(mActiveFrame, mFrameTime)
RetimedIndex(returned, active) == returned

\* updateActiveFrameRotationAngles: the Euler cache of keyframe id.
updateActiveFrameRotationAngles(kfs, id) == EulerOf(getKeyFrame(kfs, id))

\* setActiveFrame(id): the new panel fields, the callback it fires, and whether it
\* read a keyframe out of range.
setActiveFrame(kfs, id) ==
    [active    |-> id,
     frameTime |-> getKeyFrame(kfs, id).time,
     rot       |-> updateActiveFrameRotationAngles(kfs, id),
     cbs       |-> <<CB("frameChanged", kfs, id)>>,
     oob       |-> ~ValidIndex(kfs, id)]

---------------------------------------------------------------------------
(* The panel after construction *)

\* PathEditor::PathEditor over a path of the scenario: mFrameTime is frame 0's time
\* when there is one; the other fields hold their in-class initial values.  The
\* edit-complete callback may be an empty std::function (closeEditor tests it); the
\* other two are called unchecked and so are always set.
InitOver(U) ==
    /\ mKeyFrames \in U.initPaths
    /\ mName = "path"
    /\ mRepeat = FALSE
    /\ mActiveFrame = 0
    /\ mFrameTime = IF getKeyFrameCount(mKeyFrames) > 0 THEN getKeyFrame(mKeyFrames, 0).time ELSE 0
    /\ mPreserveRotation = FALSE
    /\ mActiveFrameRot = Typed(Zero3)
    /\ mEditCompleteCB \in U.editCompleteCBs
    /\ window = FALSE
    /\ pc = "idle"
    /\ ev = Ev("create", FALSE, FALSE, FALSE, <<>>, NoChange)
    /\ fired = {}

---------------------------------------------------------------------------
(* PathEditor::render, handler by handler *)

\* render: pGui->pushWindow(...)
render(U) ==
    /\ pc = "idle"
    /\ pc' = "closeEditor"
    /\ window' = TRUE
    /\ ev' = Ev("render", FALSE, FALSE, FALSE, <<>>, NoChange)
    /\ fired' = {}
    /\ UNCHANGED <<mKeyFrames, mName, mRepeat, mActiveFrame, mFrameTime,
                   mPreserveRotation, mActiveFrameRot, mEditCompleteCB>>

\* closeEditor, and render's early return when it reports the close.
closeEditor(U) ==
    /\ pc = "closeEditor"
    /\ \E pressed \in Presses(U, "closeEditor") :
        /\ window' = ~pressed
        /\ pc' = AfterClose(pressed)
        /\ ev' = Ev("closeEditor", pressed, FALSE, FALSE,
                    IF pressed
                    THEN EditCompleteCalls(mKeyFrames, mActiveFrame, mEditCompleteCB)
                    ELSE <<>>,
                    NoChange)
        /\ fired' = IF pressed THEN fired \cup {"closeEditor"} ELSE fired
    /\ UNCHANGED <<mKeyFrames, mName, mRepeat, mActiveFrame, mFrameTime,
                   mPreserveRotation, mActiveFrameRot, mEditCompleteCB>>

\* editPathName: the text box over the path's name.
editPathName(U) ==
    /\ pc = "editPathName"
    /\ \E buffer \in U.names :
        /\ mName' = buffer
        /\ ev' = Ev("editPathName", buffer # mName, FALSE, FALSE, <<>>, NoChange)
        /\ fired' = IF buffer # mName THEN fired \cup {"editPathName"} ELSE fired
    /\ pc' = "editPathLoop"
    /\ UNCHANGED <<mKeyFrames, mRepeat, mActiveFrame, mFrameTime, mPreserveRotation,
                   mActiveFrameRot, mEditCompleteCB, window>>

\* editPathLoop: the check box over the path's loop flag.
editPathLoop(U) ==
    /\ pc = "editPathLoop"
    /\ \E toggled \in U.loops :
        /\ mRepeat' = IF toggled THEN ~mRepeat ELSE mRepeat
        /\ ev' = Ev("editPathLoop", toggled, FALSE, FALSE, <<>>, NoChange)
        /\ fired' = IF toggled THEN fired \cup {"editPathLoop"} ELSE fired
    /\ pc' = "editActiveFrameID"
    /\ UNCHANGED <<mKeyFrames, mName, mActiveFrame, mFrameTime, mPreserveRotation,
                   mActiveFrameRot, mEditCompleteCB, window>>

\* editActiveFrameID: the "Selected Frame" selector over [0, count - 1]; the widget
\* writes mActiveFrame itself and setActiveFrame follows when it changed.
editActiveFrameID(U) ==
    /\ pc = "editActiveFrameID"
    /\ IF getKeyFrameCount(mKeyFrames) > 0
       THEN \E id \in IF "editActiveFrameID" \in U.press
                       THEN 0..(getKeyFrameCount(mKeyFrames) - 1)
                       ELSE {mActiveFrame} :
              LET changed == id # mActiveFrame
                  sel == setActiveFrame(mKeyFrames, id)
              IN  /\ mActiveFrame' = id
                  /\ mFrameTime' = IF changed THEN sel.frameTime ELSE mFrameTime
                  /\ mActiveFrameRot' = IF changed THEN sel.rot ELSE mActiveFrameRot
                  /\ ev' = Ev("editActiveFrameID", changed, TRUE, changed /\ sel.oob,
                              IF changed THEN sel.cbs ELSE <<>>, NoChange)
                  /\ fired' = IF changed THEN fired \cup {"editActiveFrameID"} ELSE fired
       ELSE /\ ev' = Ev("editActiveFrameID", FALSE, FALSE, FALSE, <<>>, NoChange)
            /\ UNCHANGED <<mActiveFrame, mFrameTime, mActiveFrameRot, fired>>
    /\ pc' = "addFrame"
    /\ UNCHANGED <<mKeyFrames, mName, mRepeat, mPreserveRotation, mEditCompleteCB, window>>

\* addFrame: the "Add Frame" button.
addFrame(U) ==
    /\ pc = "addFrame"
    /\ \E pressed \in {p \in Presses(U, "addFrame") :
                          p => getKeyFrameCount(mKeyFrames) < U.maxFrames} :
        IF pressed
        THEN \E newId \in TimeOrderedIndices(mKeyFrames, mFrameTime) :
               LET had == getKeyFrameCount(mKeyFrames) > 0
                   kfs == InsertAt(mKeyFrames, newId,
                                   Frame(mFrameTime, NewFramePose(mKeyFrames, mActiveFrame)))
                   sel == setActiveFrame(kfs, newId)
               IN  /\ mKeyFrames' = kfs
                   /\ mActiveFrame' = sel.active
                   /\ mFrameTime' = sel.frameTime
                   /\ mActiveFrameRot' = sel.rot
                   /\ ev' = Ev("addFrame", TRUE, FALSE,
                               (had /\ ~ValidIndex(mKeyFrames, mActiveFrame)) \/ sel.oob,
                               <<CB("countChanged", kfs, newId)>> \o sel.cbs, NoChange)
                   /\ fired' = fired \cup {"addFrame"}
        ELSE /\ ev' = Ev("addFrame", FALSE, FALSE, FALSE, <<>>, NoChange)
             /\ UNCHANGED <<mKeyFrames, mActiveFrame, mFrameTime, mActiveFrameRot, fired>>
    /\ pc' = "deleteFrame"
    /\ UNCHANGED <<mName, mRepeat, mPreserveRotation, mEditCompleteCB, window>>

\* deleteFrame: the "Remove Frame" button.
deleteFrame(U) ==
    /\ pc = "deleteFrame"
    /\ IF getKeyFrameCount(mKeyFrames) > 0
       THEN \E pressed \in Presses(U, "deleteFrame") :
              IF pressed
              THEN LET kfs == removeKeyFrame(mKeyFrames, mActiveFrame)
                       cb == CB("countChanged", kfs, mActiveFrame)
                       id == ClampActive(getKeyFrameCount(kfs), mActiveFrame)
                       sel == setActiveFrame(kfs, id)
                       remain == FramesRemain(kfs)
                   IN  /\ mKeyFrames' = kfs
                       /\ mActiveFrame' = id
                       /\ mFrameTime' = IF remain THEN sel.frameTime ELSE mFrameTime
                       /\ mActiveFrameRot' = IF remain THEN sel.rot ELSE mActiveFrameRot
                       /\ ev' = Ev("deleteFrame", TRUE, TRUE,
                                   ~ValidIndex(mKeyFrames, mActiveFrame) \/ (remain /\ sel.oob),
                                   IF remain THEN <<cb>> \o sel.cbs ELSE <<cb>>, NoChange)
                       /\ fired' = fired \cup {"deleteFrame"}
              ELSE /\ ev' = Ev("deleteFrame", FALSE, TRUE, FALSE, <<>>, NoChange)
                   /\ UNCHANGED <<mKeyFrames, mActiveFrame, mFrameTime, mActiveFrameRot, fired>>
       ELSE /\ ev' = Ev("deleteFrame", FALSE, FALSE, FALSE, <<>>, NoChange)
            /\ UNCHANGED <<mKeyFrames, mActiveFrame, mFrameTime, mActiveFrameRot, fired>>
    /\ pc' = "editFrameTime"
    /\ UNCHANGED <<mName, mRepeat, mPreserveRotation, mEditCompleteCB, window>>

\* editFrameTime: the "Frame Time" field over [0, FLT_MAX].
editFrameTime(U) ==
    /\ pc = "editFrameTime"
    /\ \E t \in U.times \cup {mFrameTime} :
        /\ mFrameTime' = t
        /\ ev' = Ev("editFrameTime", t # mFrameTime, FALSE, FALSE, <<>>, NoChange)
        /\ fired' = IF t # mFrameTime THEN fired \cup {"editFrameTime"} ELSE fired
    /\ pc' = "updateFrameTime"
    /\ UNCHANGED <<mKeyFrames, mName, mRepeat, mActiveFrame, mPreserveRotation,
                   mActiveFrameRot, mEditCompleteCB, window>>

\* updateFrameTime: the "Update Current Frame Time" button.
updateFrameTime(U) ==
    /\ pc = "updateFrameTime"
    /\ IF getKeyFrameCount(mKeyFrames) > 0
       THEN \E pressed \in Presses(U, "updateFrameTime") :
              IF pressed
              THEN LET frame == getKeyFrame(mKeyFrames, mActiveFrame)
                       rest == removeKeyFrame(mKeyFrames, mActiveFrame)
                   IN  \E returned \in TimeOrderedIndices(rest, mFrameTime) :
                         LET kfs == InsertAt(rest, returned, Frame(mFrameTime, PoseOf(frame)))
                             id == RetimedIndex(returned, mActiveFrame)
                             sel == setActiveFrame(kfs, id)
                         IN  /\ mKeyFrames' = kfs
                             /\ mActiveFrame' = sel.active
                             /\ mFrameTime' = sel.frameTime
                             /\ mActiveFrameRot' = sel.rot
                             /\ ev' = Ev("updateFrameTime", TRUE, TRUE,
                                         ~ValidIndex(mKeyFrames, mActiveFrame) \/ sel.oob,
                                         <<CB("countChanged", kfs, id)>> \o sel.cbs, NoChange)
                             /\ fired' = fired \cup {"updateFrameTime"}
              ELSE /\ ev' = Ev("updateFrameTime", FALSE, TRUE, FALSE, <<>>, NoChange)
                   /\ UNCHANGED <<mKeyFrames, mActiveFrame, mFrameTime, mActiveFrameRot, fired>>
       ELSE /\ ev' = Ev("updateFrameTime", FALSE, FALSE, FALSE, <<>>, NoChange)
            /\ UNCHANGED <<mKeyFrames, mActiveFrame, mFrameTime, mActiveFrameRot, fired>>
    /\ pc' = "editKeyframeProperties"
    /\ UNCHANGED <<mName, mRepeat, mPreserveRotation, mEditCompleteCB, window>>

\* editKeyframeProperties: the "Preserve Rotation" check box and the Position,
\* Target, Up and Rotation fields of the active keyframe.  A field left alone is
\* NoVec; a field reports a change when the value typed differs from the one shown.
editKeyframeProperties(U) ==
    /\ pc = "editKeyframeProperties"
    /\ IF getKeyFrameCount(mKeyFrames) > 0
       THEN \E toggled \in U.toggles, pIn \in U.pos, tIn \in U.tgt, uIn \in U.up, rIn \in U.rots :
              LET keyframe == getKeyFrame(mKeyFrames, mActiveFrame)
                  preserve == IF toggled THEN ~mPreserveRotation ELSE mPreserveRotation
                  posCh == pIn # NoVec /\ pIn # keyframe.position
                  tgtCh == tIn # NoVec /\ tIn # keyframe.target
                  upCh == uIn # NoVec /\ uIn # keyframe.up
                  p == IF posCh THEN pIn ELSE keyframe.position
                  kfs1 == IF posCh /\ preserve
                          THEN setFrameTarget(mKeyFrames, mActiveFrame, PreservedTarget(p, keyframe))
                          ELSE mKeyFrames
                  kfs2 == IF posCh THEN setFramePosition(kfs1, mActiveFrame, p) ELSE kfs1
                  kfs3 == IF tgtCh THEN setFrameTarget(kfs2, mActiveFrame, tIn) ELSE kfs2
                  kfs4 == IF upCh THEN setFrameUp(kfs3, mActiveFrame, uIn) ELSE kfs3
                  rotationChanged == (posCh /\ ~preserve) \/ tgtCh \/ upCh
                  rot1 == IF rotationChanged
                          THEN updateActiveFrameRotationAngles(kfs4, mActiveFrame)
                          ELSE mActiveFrameRot
                  rotCh == rIn # NoVec /\ Typed(rIn) # rot1
                  rotMtx == YawPitchRoll(rIn)
                  kfs5 == IF rotCh
                          THEN setFrameTarget(setFrameUp(kfs4, mActiveFrame, rotMtx.up),
                                              mActiveFrame, VecAdd(p, rotMtx.fwd))
                          ELSE kfs4
                  dirty == Dirty(posCh, tgtCh, upCh, rotCh)
              IN  /\ mKeyFrames' = kfs5
                  /\ InRange(U, mKeyFrames')
                  /\ mPreserveRotation' = preserve
                  /\ mActiveFrameRot' = IF rotCh THEN Typed(rIn) ELSE rot1
                  /\ ev' = Ev("editKeyframeProperties", toggled \/ posCh \/ tgtCh \/ upCh \/ rotCh,
                              TRUE, ~ValidIndex(mKeyFrames, mActiveFrame),
                              IF dirty THEN <<CB("frameChanged", mKeyFrames', mActiveFrame)>> ELSE <<>>,
                              [chk |-> toggled, pos |-> posCh, tgt |-> tgtCh,
                               up |-> upCh, rot |-> rotCh])
                  /\ fired' = IF toggled \/ posCh \/ tgtCh \/ upCh \/ rotCh
                              THEN fired \cup {"editKeyframeProperties"} ELSE fired
       ELSE /\ ev' = Ev("editKeyframeProperties", FALSE, FALSE, FALSE, <<>>, NoChange)
            /\ UNCHANGED <<mKeyFrames, mPreserveRotation, mActiveFrameRot, fired>>
    /\ pc' = "moveToCamera"
    /\ UNCHANGED <<mName, mRepeat, mActiveFrame, mFrameTime, mEditCompleteCB, window>>

\* moveToCamera: the "Move Frame to Camera" button.
moveToCamera(U) ==
    /\ pc = "moveToCamera"
    /\ IF getKeyFrameCount(mKeyFrames) > 0
       THEN \E pressed \in Presses(U, "moveToCamera") :
              IF pressed
              THEN LET kfs == setFrameUp(
                                setFrameTarget(
                                  setFramePosition(mKeyFrames, mActiveFrame, CameraPose.position),
                                  mActiveFrame, CameraPose.target),
                                mActiveFrame, CameraPose.up)
                   IN  /\ mKeyFrames' = kfs
                       /\ ev' = Ev("moveToCamera", TRUE, TRUE, ~ValidIndex(mKeyFrames, mActiveFrame),
                                   <<CB("frameChanged", kfs, mActiveFrame)>>, NoChange)
                       /\ fired' = fired \cup {"moveToCamera"}
              ELSE /\ ev' = Ev("moveToCamera", FALSE, TRUE, FALSE, <<>>, NoChange)
                   /\ UNCHANGED <<mKeyFrames, fired>>
       ELSE /\ ev' = Ev("moveToCamera", FALSE, FALSE, FALSE, <<>>, NoChange)
            /\ UNCHANGED <<mKeyFrames, fired>>
    /\ pc' = "popWindow"
    /\ UNCHANGED <<mName, mRepeat, mActiveFrame, mFrameTime, mPreserveRotation,
                   mActiveFrameRot, mEditCompleteCB, window>>

\* render: pGui->popWindow(), the end of the render call.
popWindow(U) ==
    /\ pc = "popWindow"
    /\ pc' = "idle"
    /\ window' = FALSE
    /\ ev' = Ev("popWindow", FALSE, FALSE, FALSE, <<>>, NoChange)
    /\ UNCHANGED <<mKeyFrames, mName, mRepeat, mActiveFrame, mFrameTime,
                   mPreserveRotation, mActiveFrameRot, mEditCompleteCB, fired>>

---------------------------------------------------------------------------
(* Specifications *)

NextOver(U) ==
    \/ render(U)
    \/ closeEditor(U)
    \/ editPathName(U)
    \/ editPathLoop(U)
    \/ editActiveFrameID(U)
    \/ addFrame(U)
    \/ deleteFrame(U)
    \/ editFrameTime(U)
    \/ updateFrameTime(U)
    \/ editKeyframeProperties(U)
    \/ moveToCamera(U)
    \/ popWindow(U)

\* Adding, removing, selecting and retiming keyframes.
Init == InitOver(FramesU)
Next == NextOver(FramesU)
Spec == Init /\ [][Next]_vars

\* Editing the pose of the active keyframe.
InitPose == InitOver(PoseU)
NextPose == NextOver(PoseU)
SpecPose == InitPose /\ [][NextPose]_vars

---------------------------------------------------------------------------
(* Properties *)

\* The names of the callbacks a handler invoked, in order.
CbNames(cbs) == [k \in 1..Len(cbs) |-> cbs[k].cb]

\* Exact (real-number) difference of two vectors.
ExactSub(a, b) == <<a[1] - b[1], a[2] - b[2], a[3] - b[3]>>

Min(a, b) == IF a < b THEN a ELSE b

\* The active keyframe now, and the one the last handler started with.
ActiveNow == mKeyFrames[mActiveFrame + 1]
ActiveBefore == ev.pre.kfs[ev.pre.active + 1]

\* C1: after construction and after every completed render call, when the path
\* holds keyframes, mActiveFrame is one of their indices.
C1_ActiveIndexValid ==
    (pc = "idle" /\ getKeyFrameCount(mKeyFrames) > 0)
        => (mActiveFrame >= 0 /\ mActiveFrame < getKeyFrameCount(mKeyFrames))

\* A render call that added and removed keyframes has completed with keyframes left.
C1_Witness ==
    /\ pc = "idle"
    /\ {"addFrame", "deleteFrame"} \subseteq fired
    /\ getKeyFrameCount(mKeyFrames) = 2
    /\ mActiveFrame = 1

\* C2: no handler reads or writes a keyframe out of range, and a frame-dependent
\* control is drawn only when the count the handler observed was > 0.
C2_NoAccessWithoutFrames ==
    /\ ~ev.oob
    /\ ev.drawn => getKeyFrameCount(ev.pre.kfs) > 0

\* Remove Frame deleted the only keyframe and the rest of the frame ran: the last
\* frame-dependent control (Move Frame to Camera) was not drawn.
C2_Witness ==
    /\ pc = "popWindow"
    /\ "deleteFrame" \in fired
    /\ getKeyFrameCount(mKeyFrames) = 0
    /\ ev.op = "moveToCamera"
    /\ ~ev.drawn

\* C3 as stated: when Close is activated, onEditComplete is invoked exactly once, the
\* window is popped, render returns, and nothing else happens in the frame.
C3_Original ==
    (ev.op = "closeEditor" /\ ev.fired)
        => /\ CbNames(ev.cbs) = <<"editComplete">>
           /\ ~window
           /\ pc = "idle"
           /\ fired = {"closeEditor"}
           /\ mKeyFrames = ev.pre.kfs /\ mName = ev.pre.name /\ mRepeat = ev.pre.repeat

\* C3 amended: as C3, with onEditComplete invoked exactly once when the edit-complete
\* callback holds a target and not at all when it is empty.
C3_CloseEndsFrame ==
    (ev.op = "closeEditor" /\ ev.fired)
        => /\ CbNames(ev.cbs) = IF mEditCompleteCB THEN <<"editComplete">> ELSE <<>>
           /\ ~window
           /\ pc = "idle"
           /\ fired = {"closeEditor"}
           /\ mKeyFrames = ev.pre.kfs /\ mName = ev.pre.name /\ mRepeat = ev.pre.repeat

\* Close was activated over a path with keyframes and the callback was invoked.
C3_Witness ==
    /\ ev.op = "closeEditor" /\ ev.fired
    /\ mEditCompleteCB
    /\ Len(ev.cbs) = 1
    /\ getKeyFrameCount(mKeyFrames) > 0

\* C4: Add Frame with N keyframes leaves N + 1; the new keyframe has the pending
\* time and the pose of the keyframe that was active (the default pose when N = 0),
\* the other keyframes are kept, and mActiveFrame is the new keyframe's index.
C4_AddFrame ==
    (ev.op = "addFrame" /\ ev.fired)
        => /\ getKeyFrameCount(mKeyFrames) = getKeyFrameCount(ev.pre.kfs) + 1
           /\ mActiveFrame >= 0 /\ mActiveFrame < getKeyFrameCount(mKeyFrames)
           /\ ActiveNow.time = ev.pre.frameTime
           /\ PoseOf(ActiveNow) = IF getKeyFrameCount(ev.pre.kfs) > 0
                                  THEN PoseOf(ActiveBefore) ELSE DefaultPose
           /\ \A k \in 1..Len(ev.pre.kfs) :
                mKeyFrames[IF k <= mActiveFrame THEN k ELSE k + 1] = ev.pre.kfs[k]

\* A keyframe was added before the end of a non-empty path, copying a pose that is
\* not the default one.
C4_Witness ==
    /\ ev.op = "addFrame" /\ ev.fired
    /\ getKeyFrameCount(ev.pre.kfs) = 2
    /\ mActiveFrame = 1
    /\ ev.pre.active = 0
    /\ PoseOf(ActiveNow) = CameraPose
    /\ PoseOf(mKeyFrames[3]) = DefaultPose

\* C5: Remove Frame with N keyframes and active index i erases keyframe i; with
\* N > 1 the active index becomes min(i, N - 2) and onKeyframeCountChanged then
\* onFrameChanged are invoked; with N = 1 the path is empty, setActiveFrame is not
\* called and only onKeyframeCountChanged is invoked.
C5_RemoveFrame ==
    (ev.op = "deleteFrame" /\ ev.fired)
        => LET N == getKeyFrameCount(ev.pre.kfs)
               i == ev.pre.active
           IN  /\ getKeyFrameCount(mKeyFrames) = N - 1
               /\ \A k \in 1..(N - 1) :
                    mKeyFrames[k] = ev.pre.kfs[IF k <= i THEN k ELSE k + 1]
               /\ N > 1 => /\ mActiveFrame = Min(i, N - 2)
                           /\ CbNames(ev.cbs) = <<"countChanged", "frameChanged">>
               /\ N = 1 => /\ CbNames(ev.cbs) = <<"countChanged">>
                           /\ mFrameTime = ev.pre.frameTime
                           /\ mActiveFrameRot = ev.pre.rot

\* The last of three keyframes was removed and the active index moved to N - 2.
C5_Witness ==
    /\ ev.op = "deleteFrame" /\ ev.fired
    /\ getKeyFrameCount(ev.pre.kfs) = 3
    /\ ev.pre.active = 2
    /\ mActiveFrame = 1

\* C6 as stated: with Preserve Rotation set, after an edit of the position the
\* stored keyframe has target - position equal to what it was before the call.
C6_Original ==
    (ev.op = "editKeyframeProperties" /\ ev.chg.pos /\ mPreserveRotation)
        => ExactSub(ActiveNow.target, ActiveNow.position)
             = ExactSub(ActiveBefore.target, ActiveBefore.position)

\* C6 amended: with Preserve Rotation set, after an edit of the position in a call
\* where neither Target nor Rotation reports an edit, the stored target is the new
\* position plus the old offset (old target - old position), both computed in float.
C6_PreserveRotation ==
    (/\ ev.op = "editKeyframeProperties" /\ ev.chg.pos /\ mPreserveRotation
     /\ ~ev.chg.tgt /\ ~ev.chg.rot)
        => ActiveNow.target
             = VecAdd(ActiveNow.position, VecSub(ActiveBefore.target, ActiveBefore.position))

\* The position was moved with Preserve Rotation set and the target followed by the
\* same delta.
C6_Witness ==
    /\ ev.op = "editKeyframeProperties" /\ ev.chg.pos /\ mPreserveRotation
    /\ ~ev.chg.tgt /\ ~ev.chg.rot
    /\ ActiveNow.position # ActiveBefore.position
    /\ ActiveNow.target # ActiveBefore.target
    /\ ExactSub(ActiveNow.target, ActiveNow.position)
         = ExactSub(ActiveBefore.target, ActiveBefore.position)

\* The handler that just ran changed the active frame or its orientation other than
\* through the Rotation field.
OrientationChanged ==
    \/ /\ ev.op \in {"editActiveFrameID", "addFrame", "deleteFrame",
                     "updateFrameTime", "moveToCamera"}
       /\ ev.fired
    \/ /\ ev.op = "editKeyframeProperties"
       /\ ~ev.chg.rot
       /\ ev.chg.tgt \/ ev.chg.up \/ (ev.chg.pos /\ ~mPreserveRotation)

\* C7: after a handler that changed the active frame or its orientation other than
\* through the Rotation field, the Euler cache is the look-at-to-Euler derivation of
\* the active keyframe's pose, when the path holds keyframes.
C7_EulerCacheFresh ==
    (OrientationChanged /\ getKeyFrameCount(mKeyFrames) > 0)
        => mActiveFrameRot = EulerOf(ActiveNow)

\* C7 for every handler but Move Frame to Camera.
C7_FreshExceptCamera ==
    (OrientationChanged /\ ev.op # "moveToCamera" /\ getKeyFrameCount(mKeyFrames) > 0)
        => mActiveFrameRot = EulerOf(ActiveNow)

\* C8: Update Current Frame Time gives the active keyframe the pending time, keeps
\* its pose, the count and the other keyframes; mActiveFrame designates the retimed
\* keyframe, mFrameTime is its time, and onKeyframeCountChanged is invoked once,
\* before the onFrameChanged of setActiveFrame.
C8_UpdateFrameTime ==
    (ev.op = "updateFrameTime" /\ ev.fired)
        => /\ getKeyFrameCount(mKeyFrames) = getKeyFrameCount(ev.pre.kfs)
           /\ mActiveFrame >= 0 /\ mActiveFrame < getKeyFrameCount(mKeyFrames)
           /\ ActiveNow = [ActiveBefore EXCEPT !.time = ev.pre.frameTime]
           /\ \A k \in 1..(Len(mKeyFrames) - 1) :
                mKeyFrames[IF k <= mActiveFrame THEN k ELSE k + 1]
                  = ev.pre.kfs[IF k <= ev.pre.active THEN k ELSE k + 1]
           /\ mFrameTime = ActiveNow.time
           /\ CbNames(ev.cbs) = <<"countChanged", "frameChanged">>

\* A keyframe was retimed and the path moved it to another index.
C8_Witness ==
    /\ ev.op = "updateFrameTime" /\ ev.fired
    /\ getKeyFrameCount(mKeyFrames) = 3
    /\ ev.pre.active = 0
    /\ mActiveFrame = 2
    /\ ActiveNow.time # ActiveBefore.time
    /\ PoseOf(ActiveNow) # PoseOf(mKeyFrames[1])

\* C9: one call of the property editor over a path with keyframes invokes
\* onFrameChanged once when Position, Target, Up or Rotation changed, however many
\* did, and not at all otherwise; toggling Preserve Rotation alone leaves the path
\* as it was.
C9_OneFrameChanged ==
    (ev.op = "editKeyframeProperties" /\ ev.drawn)
        => LET any == ev.chg.pos \/ ev.chg.tgt \/ ev.chg.up \/ ev.chg.rot
           IN  /\ any => CbNames(ev.cbs) = <<"frameChanged">>
               /\ ~any => (ev.cbs = <<>> /\ mKeyFrames = ev.pre.kfs)

\* All four fields changed in one call and onFrameChanged was invoked once.
C9_Witness ==
    /\ ev.op = "editKeyframeProperties"
    /\ ev.chg.pos /\ ev.chg.tgt /\ ev.chg.up /\ ev.chg.rot
    /\ Len(ev.cbs) = 1

\* C10: whenever a callback is invoked while the path holds keyframes, mActiveFrame
\* is an index of the path as it is at that moment.
C10_CallbackSeesValidIndex ==
    \A k \in 1..Len(ev.cbs) :
        ev.cbs[k].count > 0
            => (ev.cbs[k].active >= 0 /\ ev.cbs[k].active < ev.cbs[k].count)

====
